---- MODULE Spec2Model ----
(***************************************************************************)
(* A model of the Shuffler application (src/main.py), of its ui.List       *)
(* widget (src/ui.py) and of its export writers (src/data_export).         *)
(*                                                                         *)
(* A text (a Python str) is a sequence of one-character strings.  A list   *)
(* of items is a sequence of texts.                                        *)
(***************************************************************************)
EXTENDS Integers, Sequences, FiniteSets, TLC

VARIABLES
    shuffle_list,            \* state['shuffle_list']: the Working List
    shuffle_list_filepath,   \* state['shuffle_list_filepath']: None or a text
    picked,                  \* state['picked']: the Picked List
    value,                   \* state['value'].get(): the displayed text
    shuffle_btn,             \* state['shuffle_btn']['text']: the toggle's label
    shuffling_in_progress,   \* state['shuffling_in_progress']: the Running Flag
    picked_items_container,  \* state['picked_items_container']._items
    timers,                  \* pending self.after callbacks, oldest first: each
                             \* is the i its _start_item_flash_loop(i) captured
    out,                     \* what the most recent handler did to the outside
    pre_pick_len,            \* history: the Working List's length when it was
                             \* last installed by a load or refilled by a reset
    State_items,             \* State.items of a State container taken on its
                             \* own: a dict from keys to objects
    heap,                    \* the objects a State can hold: how many times
                             \* each was changed in place
    hist                     \* history of that State: the kwargs it was
                             \* constructed with, the plain value last set
                             \* for each key

vars == <<shuffle_list, shuffle_list_filepath, picked, value, shuffle_btn,
          shuffling_in_progress, picked_items_container, timers, out,
          pre_pick_len, State_items, heap, hist>>

----------------------------------------------------------------------------
(* Bounds of the model.                                                    *)

\* A handler is not taken when it would leave more texts than this in the
\* Working List and the Picked List together.
MaxHeld == 3
\* Start is not taken while this many timer callbacks are pending.
MaxTimers == 2
\* A callable given to State.set changes an object in place at most this
\* many times.
MaxChanges == 1
\* The export writers are given lists of at most this many items.
MaxItems == 2

----------------------------------------------------------------------------
(* Texts.                                                                  *)

\* Python's None: a value that is no text.
None == <<"None">>

NL == "\n"

RECURSIVE Concat(_)
\* ''.join(texts)
Concat(texts) ==
    IF texts = <<>> THEN <<>> ELSE Head(texts) \o Concat(Tail(texts))

RECURSIVE Join(_, _)
\* sep.join(texts)
Join(sep, texts) ==
    IF texts = <<>> THEN <<>>
    ELSE IF Len(texts) = 1 THEN texts[1]
    ELSE texts[1] \o sep \o Join(sep, Tail(texts))

RECURSIVE LStrip(_, _)
\* text.lstrip(chars)
LStrip(text, chars) ==
    IF text # <<>> /\ Head(text) \in chars THEN LStrip(Tail(text), chars) ELSE text

RECURSIVE RStrip(_, _)
\* text.rstrip(chars)
RStrip(text, chars) ==
    IF text # <<>> /\ text[Len(text)] \in chars
    THEN RStrip(SubSeq(text, 1, Len(text) - 1), chars)
    ELSE text

\* text.strip(chars)
Strip(text, chars) == RStrip(LStrip(text, chars), chars)

\* The characters str.strip() removes when it is given no argument.
Whitespace == {" ", "\t", "\n", "\r", "\f"}

UpperLetters == <<"A","B","C","D","E","F","G","H","I","J","K","L","M",
                  "N","O","P","Q","R","S","T","U","V","W","X","Y","Z">>
LowerLetters == <<"a","b","c","d","e","f","g","h","i","j","k","l","m",
                  "n","o","p","q","r","s","t","u","v","w","x","y","z">>

\* text.lower()
Lower(text) ==
    [k \in 1..Len(text) |->
        IF \E j \in 1..26 : UpperLetters[j] = text[k]
        THEN LowerLetters[CHOOSE j \in 1..26 : UpperLetters[j] = text[k]]
        ELSE text[k]]

\* str(n) for the small n the model reaches.
Str(n) ==
    IF n < 10 THEN <<(<<"0","1","2","3","4","5","6","7","8","9">>)[n + 1]>>
    ELSE <<"1", (<<"0","1","2","3","4","5","6","7","8","9">>)[n - 9]>>

\* The set of all orders a set of values can be listed in.
Perms(S) ==
    {f \in [1..Cardinality(S) -> S] : \A x \in S : \E k \in DOMAIN f : f[k] = x}

\* The values of a sequence.
Range(seq) == {seq[k] : k \in DOMAIN seq}

\* The orders random.shuffle can leave a list in: its rearrangements.
Shuffles(list) ==
    {[k \in DOMAIN list |-> list[p[k]]] : p \in Perms(DOMAIN list)}

----------------------------------------------------------------------------
(* The outside: the files the user can open, the answers of the dialogs.   *)

F1 == <<"f","1">>
F2 == <<"f","2">>

\* The text files an Import can read, by path: one with a repeated line,
\* blank lines and lines with spaces and tabs around the text, and one
\* with blank lines only.
SourceFiles ==
    [p \in {F1, F2} |->
        CASE p = F1 -> <<" ", "a", NL, NL, "\t", "b", " ", NL, "a", NL, "\t", NL>>
          [] p = F2 -> <<NL, " ", NL>>]

\* What ui.file_chooser() can return: a file's path, or '' when the user
\* cancels the dialog.
OpenChoices == DOMAIN SourceFiles \cup {<<>>}

----------------------------------------------------------------------------
(* The application's state as one record, and what a handler leaves behind. *)

St ==
    [shuffle_list |-> shuffle_list,
     shuffle_list_filepath |-> shuffle_list_filepath,
     picked |-> picked,
     value |-> value,
     shuffle_btn |-> shuffle_btn,
     shuffling_in_progress |-> shuffling_in_progress,
     picked_items_container |-> picked_items_container,
     timers |-> timers,
     out |-> out,
     pre_pick_len |-> pre_pick_len]

\* The next state is the record s.
Becomes(s) ==
    /\ shuffle_list' = s.shuffle_list
    /\ shuffle_list_filepath' = s.shuffle_list_filepath
    /\ picked' = s.picked
    /\ value' = s.value
    /\ shuffle_btn' = s.shuffle_btn
    /\ shuffling_in_progress' = s.shuffling_in_progress
    /\ picked_items_container' = s.picked_items_container
    /\ timers' = s.timers
    /\ out' = s.out
    /\ pre_pick_len' = s.pre_pick_len
    /\ UNCHANGED <<State_items, heap, hist>>

\* No effect on the outside yet: no exception raised, no dialog shown, no
\* item flashed on screen, no export writer called, no file written.
NoEffect(op) ==
    [op |-> op, raised |-> "none", dialogs |-> <<>>, flashed |-> FALSE,
     calls |-> <<>>, writes |-> <<>>]

\* A handler starts.
Begin(s, op) == [s EXCEPT !.out = NoEffect(op)]

\* A file dialog is shown and answers chosen.
Asked(s, dialog, chosen) ==
    [s EXCEPT !.out.dialogs = Append(@, [dialog |-> dialog, answer |-> chosen])]

\* An exception leaves the handler.
Raise(s, exception) == [s EXCEPT !.out.raised = exception]

\* Python's truth value of a text or None.
Truthy(x) == x # None /\ x # <<>>

MsgChoose == <<"C","h","o","o","s","e"," ","a","n"," ","i","t","e","m","s"," ","f","i","l","e">>
MsgReset == <<"S","h","u","f","f","l","e","r"," ","r","e","s","e","t",".">>
MsgNoMore == <<"N","o"," ","m","o","r","e"," ","i","t","e","m","s","."," ",
               "R","e","s","e","t","/","R","e","s","t","a","r","t",".">>
\* f'{n} items loaded. Ready to start.'
MsgLoaded(n) ==
    Str(n) \o <<" ","i","t","e","m","s"," ","l","o","a","d","e","d","."," ",
                "R","e","a","d","y"," ","t","o"," ","s","t","a","r","t",".">>

----------------------------------------------------------------------------
(* src/main.py: State, a container of the app's state.  Its values are     *)
(* references to objects, so that a change of an object in place and the   *)
(* replacement of a value by another object are different things.          *)

\* The keys a State is used with.
Keys == {"a", "b"}

\* The objects a State can hold, by name.
Objects == {<<"o", "1">>, <<"o", "2">>}

\* The plain (not callable) values a State can be given: an object or None.
PlainValues == Objects \cup {None}

\* The callables a State.set can be given: one that only reads its
\* argument, one that changes it in place (as StrBinding.set or list.append
\* do).
Callables == {"look", "touch"}

\* {}: the dict with no key.
EmptyDict == [k \in {} |-> None]

\* The dicts with keys among Keys and plain values.
Dicts == UNION {[D -> PlainValues] : D \in SUBSET Keys}

\* dict[key] = v
DictSet(dict, key, v) ==
    [k \in DOMAIN dict \cup {key} |-> IF k = key THEN v ELSE dict[k]]

\* The container and the objects as one record, with what the call in
\* progress returned, raised and invoked.
Container ==
    [items |-> State_items, heap |-> heap,
     returned |-> None, raised |-> "none", invoked |-> <<>>]

\* State.__init__(**kwargs)
State__init__(c, kwargs) == [c EXCEPT !.items = kwargs]

\* State.get(key)
State_get(c, key) ==
    [c EXCEPT !.returned = IF key \in DOMAIN c.items THEN c.items[key] ELSE None]

\* value(arg) for a callable value: the call is noted, and "touch" changes
\* the object it is given in place.
Invoke(c, f, arg) ==
    [c EXCEPT !.invoked = Append(@, [f |-> f, arg |-> arg]),
              !.heap = IF f = "touch" /\ arg \in Objects
                       THEN [@ EXCEPT ![arg] = @ + 1]
                       ELSE @]

\* A set that builds the dict anew with the one key it is given.
State_set_alone(c, key, v) ==
    IF v \in Callables
    THEN IF key \in DOMAIN c.items
         THEN Invoke(c, v, c.items[key])
         ELSE [c EXCEPT !.raised = "KeyError"]
    ELSE [c EXCEPT !.items = [k \in {key} |-> v]]

\* A set that stores what the callable returns (None) under the key.
State_set_storing_result(c, key, v) ==
    IF v \in Callables
    THEN IF key \in DOMAIN c.items
         THEN [Invoke(c, v, c.items[key]) EXCEPT !.items = DictSet(@, key, None)]
         ELSE [c EXCEPT !.raised = "KeyError"]
    ELSE [c EXCEPT !.items = DictSet(@, key, v)]

\* State.set(key, value): self.items[key] raises KeyError when a callable
\* is given for a key the dict does not have.
State_set(c, key, v) ==
    IF v \in Callables
    THEN IF key \in DOMAIN c.items
         THEN Invoke(c, v, c.items[key])
         ELSE [c EXCEPT !.raised = "KeyError"]
    ELSE [c EXCEPT !.items = DictSet(@, key, v)]

----------------------------------------------------------------------------
(* src/main.py: Application.                                               *)

RECURSIVE SplitLines(_, _)
\* file.readlines(): the lines of a text, each with its line end; cur is
\* the line being read.
SplitLines(text, cur) ==
    IF text = <<>> THEN (IF cur = <<>> THEN <<>> ELSE <<cur>>)
    ELSE IF Head(text) = NL
         THEN <<Append(cur, NL)>> \o SplitLines(Tail(text), <<>>)
         ELSE SplitLines(Tail(text), Append(cur, Head(text)))

ReadLines(text) == SplitLines(text, <<>>)

\* A toggle of the flag that never touches the button's label.
_toggle_shuffle_state_flag_only(s, state, update_btn_label) ==
    IF state = "on" THEN [s EXCEPT !.shuffling_in_progress = TRUE]
    ELSE IF state = "off" THEN [s EXCEPT !.shuffling_in_progress = FALSE]
    ELSE s

\* _toggle_shuffle_state(state, update_btn_label), btn_state left None.  The
\* callers pass update_btn_label as a boolean only.
_toggle_shuffle_state(s, state, update_btn_label) ==
    IF state = "on"
    THEN [s EXCEPT !.shuffling_in_progress = TRUE,
                   !.shuffle_btn = IF update_btn_label THEN "Stop" ELSE @]
    ELSE IF state = "off"
    THEN [s EXCEPT !.shuffling_in_progress = FALSE,
                   !.shuffle_btn = IF update_btn_label THEN "Start" ELSE @]
    ELSE s

\* ui.List.add
ListAdd(items, item) == Append(items, item)

\* ui.List.remove_all
ListRemoveAll(items) == <<>>

\* A transfer that puts the item in front of the picked ones.
_transfer_item_in_front(s, item_) ==
    [s EXCEPT !.shuffle_list = SelectSeq(@, LAMBDA item : item # item_),
              !.picked = <<item_>> \o @,
              !.picked_items_container = ListAdd(@, item_)]

\* _transfer_item_to_picked_list(item_)
_transfer_item_to_picked_list(s, item_) ==
    [s EXCEPT !.shuffle_list = SelectSeq(@, LAMBDA item : item # item_),
              !.picked = Append(@, item_),
              !.picked_items_container = ListAdd(@, item_)]

\* Whether list[i] raises no IndexError.
InRange(i, list) == -Len(list) <= i /\ i < Len(list)

\* list[i], a negative i counting from the end.
At(list, i) == IF i >= 0 THEN list[i + 1] ELSE list[Len(list) + i + 1]

\* A loop step that does not look at the running flag before it shows an
\* item, only before it schedules the next step.
_start_item_flash_loop_ungated(s, i) ==
    LET shown == InRange(i, s.shuffle_list)
        n == Len(s.shuffle_list)
        next == IF ~shown THEN 0
                ELSE IF i < n - 1 THEN i + 1 ELSE i - n
    IN [s EXCEPT !.value = IF shown THEN At(s.shuffle_list, i) ELSE @,
                 !.out.flashed = shown,
                 !.timers = IF s.shuffling_in_progress THEN Append(@, next) ELSE @]

\* A loop step that lets the IndexError of shuffle_list[i] leave the handler.
_start_item_flash_loop_raising(s, i) ==
    IF s.shuffling_in_progress
    THEN LET shown == InRange(i, s.shuffle_list)
             n == Len(s.shuffle_list)
             next == IF i < n - 1 THEN i + 1 ELSE i - n
         IN IF shown
            THEN [s EXCEPT !.value = At(s.shuffle_list, i),
                           !.out.flashed = TRUE,
                           !.timers = Append(@, next)]
            ELSE Raise(s, "IndexError")
    ELSE s

\* A loop step that goes back to the first item after every item it shows.
_start_item_flash_loop_first_two(s, i) ==
    IF s.shuffling_in_progress
    THEN LET shown == InRange(i, s.shuffle_list)
             next == IF shown /\ i = 0 /\ Len(s.shuffle_list) > 1 THEN 1 ELSE 0
         IN [s EXCEPT !.value = IF shown THEN At(s.shuffle_list, i) ELSE @,
                      !.out.flashed = shown,
                      !.timers = Append(@, next)]
    ELSE s

\* _start_item_flash_loop(i)
_start_item_flash_loop(s, i) ==
    IF s.shuffling_in_progress
    THEN LET shown == InRange(i, s.shuffle_list)
             n == Len(s.shuffle_list)
             next == IF ~shown THEN 0
                     ELSE IF i < n - 1 THEN i + 1 ELSE i - n
         IN [s EXCEPT !.value = IF shown THEN At(s.shuffle_list, i) ELSE @,
                      !.out.flashed = shown,
                      !.timers = Append(@, next)]
    ELSE s

\* _load_shuffle_list(fresh): the states it can end in, when the dialog (if
\* it is shown) answers chosen.  list(set(...)) may list the set in any order.
_load_shuffle_list(s, fresh, chosen) ==
    LET ask == fresh \/ ~Truthy(s.shuffle_list_filepath)
        s1 == IF ask
              THEN [Asked(s, "open", chosen) EXCEPT !.shuffle_list_filepath = chosen]
              ELSE s
        path == s1.shuffle_list_filepath
    IN IF path \notin DOMAIN SourceFiles
       THEN {Raise(s1, "FileNotFoundError")}
       ELSE LET raw == ReadLines(SourceFiles[path])
                lines == [k \in DOMAIN raw |-> Strip(raw[k], {" ", NL})]
                kept == SelectSeq(lines, LAMBDA line : Strip(line, Whitespace) # <<>>)
            IN {[s1 EXCEPT !.shuffle_list = order,
                           !.pre_pick_len = Len(order),
                           !.value = MsgLoaded(Len(order))]
                  : order \in Perms(Range(kept))}

\* A reset that leaves the loop stopped.
_reset_left_stopped(s) ==
    IF s.picked # <<>>
    THEN LET s1 == IF s.shuffling_in_progress
                   THEN _toggle_shuffle_state(s, "off", TRUE) ELSE s
             s2 == [s1 EXCEPT !.shuffle_list = @ \o s1.picked,
                              !.picked = <<>>,
                              !.picked_items_container = ListRemoveAll(@),
                              !.shuffle_btn = "Start"]
         IN [s2 EXCEPT !.value = MsgReset,
                       !.pre_pick_len = Len(s2.shuffle_list)]
    ELSE s

\* A reset that makes the picked items the whole list.
_reset_dropping_rest(s) ==
    IF s.picked # <<>>
    THEN LET restart_shuffle == s.shuffling_in_progress
             s1 == IF restart_shuffle THEN _toggle_shuffle_state(s, "off", TRUE) ELSE s
             s2 == [s1 EXCEPT !.shuffle_list = s1.picked,
                              !.picked = <<>>,
                              !.picked_items_container = ListRemoveAll(@)]
             s3 == IF restart_shuffle THEN _toggle_shuffle_state(s2, "on", TRUE)
                   ELSE [s2 EXCEPT !.shuffle_btn = "Start"]
         IN [s3 EXCEPT !.value = MsgReset,
                       !.pre_pick_len = Len(s3.shuffle_list)]
    ELSE s

\* A reset that does not look whether anything was picked.
_reset_unguarded(s) ==
    LET restart_shuffle == s.shuffling_in_progress
        s1 == IF restart_shuffle THEN _toggle_shuffle_state(s, "off", TRUE) ELSE s
        s2 == [s1 EXCEPT !.shuffle_list = @ \o s1.picked,
                         !.picked = <<>>,
                         !.picked_items_container = ListRemoveAll(@)]
        s3 == IF restart_shuffle THEN _toggle_shuffle_state(s2, "on", TRUE)
              ELSE [s2 EXCEPT !.shuffle_btn = "Start"]
    IN [s3 EXCEPT !.value = MsgReset,
                  !.pre_pick_len = Len(s3.shuffle_list)]

\* A reset that puts the picked items in front of the list.
_reset_picked_first(s) ==
    IF s.picked # <<>>
    THEN LET restart_shuffle == s.shuffling_in_progress
             s1 == IF restart_shuffle THEN _toggle_shuffle_state(s, "off", TRUE) ELSE s
             s2 == [s1 EXCEPT !.shuffle_list = s1.picked \o @,
                              !.picked = <<>>,
                              !.picked_items_container = ListRemoveAll(@)]
             s3 == IF restart_shuffle THEN _toggle_shuffle_state(s2, "on", TRUE)
                   ELSE [s2 EXCEPT !.shuffle_btn = "Start"]
         IN [s3 EXCEPT !.value = MsgReset,
                       !.pre_pick_len = Len(s3.shuffle_list)]
    ELSE s

\* _reset()
_reset(s) ==
    IF s.picked # <<>>
    THEN LET restart_shuffle == s.shuffling_in_progress
             s1 == IF restart_shuffle THEN _toggle_shuffle_state(s, "off", TRUE) ELSE s
             s2 == [s1 EXCEPT !.shuffle_list = @ \o s1.picked,
                              !.picked = <<>>,
                              !.picked_items_container = ListRemoveAll(@)]
             s3 == IF restart_shuffle THEN _toggle_shuffle_state(s2, "on", TRUE)
                   ELSE [s2 EXCEPT !.shuffle_btn = "Start"]
         IN [s3 EXCEPT !.value = MsgReset,
                       !.pre_pick_len = Len(s3.shuffle_list)]
    ELSE s

\* A pick that does not look whether the loop is running.
_pick_item_when_stopped(s) ==
    IF s.shuffle_list # <<>>
    THEN LET s1 == _toggle_shuffle_state(s, "off", FALSE)
             s2 == _transfer_item_to_picked_list(s1, s1.value)
         IN IF s2.shuffle_list = <<>>
            THEN [s2 EXCEPT !.value = MsgNoMore, !.shuffle_btn = "Restart"]
            ELSE _toggle_shuffle_state(s2, "on", FALSE)
    ELSE s

\* A pick that goes on to resume the loop after the last item was picked.
_pick_item_no_return(s) ==
    IF s.shuffle_list # <<>> /\ s.shuffling_in_progress
    THEN LET s1 == _toggle_shuffle_state(s, "off", FALSE)
             s2 == _transfer_item_to_picked_list(s1, s1.value)
             s3 == IF s2.shuffle_list = <<>>
                   THEN [s2 EXCEPT !.value = MsgNoMore, !.shuffle_btn = "Restart"]
                   ELSE s2
         IN _toggle_shuffle_state(s3, "on", FALSE)
    ELSE s

\* _pick_item()
_pick_item(s) ==
    IF s.shuffle_list # <<>> /\ s.shuffling_in_progress
    THEN LET s1 == _toggle_shuffle_state(s, "off", FALSE)
             s2 == _transfer_item_to_picked_list(s1, s1.value)
         IN IF s2.shuffle_list = <<>>
            THEN [s2 EXCEPT !.value = MsgNoMore, !.shuffle_btn = "Restart"]
            ELSE _toggle_shuffle_state(s2, "on", FALSE)
    ELSE s

\* start_shuffling() of _toggle_shuffler: the states it can end in.
start_shuffling(s) ==
    {_start_item_flash_loop(
         _toggle_shuffle_state([s EXCEPT !.shuffle_list = order], "on", TRUE), 0)
       : order \in Shuffles(s.shuffle_list)}

\* What follows the load in _toggle_shuffler.
ToggleAfterLoad(s) ==
    IF s.out.raised # "none" THEN {s}
    ELSE IF ~s.shuffling_in_progress
    THEN start_shuffling(IF s.shuffle_list = <<>> THEN _reset(s) ELSE s)
    ELSE {_toggle_shuffle_state(s, "off", TRUE)}

\* _toggle_shuffler(): the states it can end in, when the file dialog (if it
\* is shown) answers chosen.
_toggle_shuffler(s, chosen) ==
    IF s.shuffle_list = <<>> /\ ~Truthy(s.shuffle_list_filepath)
    THEN UNION {ToggleAfterLoad(t) : t \in _load_shuffle_list(s, FALSE, chosen)}
    ELSE ToggleAfterLoad(s)

----------------------------------------------------------------------------
(* src/data_export: the export writers.                                    *)

\* open(path, 'wt') and file.write(content), or ElementTree.write(path).
WriteFile(s, path, content) ==
    [s EXCEPT !.out.writes = Append(@, [path |-> path, content |-> content])]

\* A call of an export writer is noted with its arguments (None where the
\* writer has no such argument).
Called(s, writer, root_el_name, child_el_name, items, path) ==
    [s EXCEPT !.out.calls =
        Append(@, [writer |-> writer, root_el_name |-> root_el_name,
                   child_el_name |-> child_el_name, items |-> items, path |-> path])]

\* A writer that ends every item, the last one too, with a newline.
PlainTextLines(items) == Concat([k \in DOMAIN items |-> items[k] \o <<NL>>])

\* data_export.plain.export: the text it writes.
PlainText(items) == Join(<<NL>>, items)

\* An encoding that escapes the control characters and leaves the quote and
\* the backslash as they are.
JsonCharNoQuoting(c) ==
    CASE c = "\n" -> <<"\\", "n">>
      [] c = "\r" -> <<"\\", "r">>
      [] c = "\t" -> <<"\\", "t">>
      [] c = "\f" -> <<"\\", "f">>
      [] OTHER -> <<c>>

\* json's encoding of one character of a string (ensure_ascii), for the
\* characters of the model.
JsonChar(c) ==
    CASE c = "\"" -> <<"\\", "\"">>
      [] c = "\\" -> <<"\\", "\\">>
      [] c = "\n" -> <<"\\", "n">>
      [] c = "\r" -> <<"\\", "r">>
      [] c = "\t" -> <<"\\", "t">>
      [] c = "\f" -> <<"\\", "f">>
      [] OTHER -> <<c>>

\* json's encoding of a string.
JsonString(text) ==
    <<"\"">> \o Concat([k \in DOMAIN text |-> JsonChar(text[k])]) \o <<"\"">>

\* json.dumps(items, indent=4)
JsonDumps(items) ==
    IF items = <<>> THEN <<"[", "]">>
    ELSE <<"[", NL, " ", " ", " ", " ">>
         \o Join(<<",", NL, " ", " ", " ", " ">>,
                 [k \in DOMAIN items |-> JsonString(items[k])])
         \o <<NL, "]">>

\* ElementTree's escaping of one character of an element's text.
XmlChar(c) ==
    CASE c = "&" -> <<"&", "a", "m", "p", ";">>
      [] c = "<" -> <<"&", "l", "t", ";">>
      [] c = ">" -> <<"&", "g", "t", ";">>
      [] OTHER -> <<c>>

\* _xml_element as ElementTree writes it: an element with no text is written
\* in the short form.
XmlElement(tagname, data) ==
    IF data = <<>> THEN <<"<">> \o tagname \o <<" ", "/", ">">>
    ELSE <<"<">> \o tagname \o <<">">>
         \o Concat([k \in DOMAIN data |-> XmlChar(data[k])])
         \o <<"<", "/">> \o tagname \o <<">">>

\* _xml_list and _pretty_xml as ElementTree.write(path, encoding='utf-8')
\* writes them: no XML declaration, children indented by two spaces.
XmlText(root_el_name, child_el_name, items) ==
    IF items = <<>> THEN <<"<">> \o root_el_name \o <<" ", "/", ">">>
    ELSE <<"<">> \o root_el_name \o <<">", NL, " ", " ">>
         \o Join(<<NL, " ", " ">>,
                 [k \in DOMAIN items |-> XmlElement(child_el_name, items[k])])
         \o <<NL, "<", "/">> \o root_el_name \o <<">">>

\* data_export.plain.export(items, path)
export_plain(s, items, path) ==
    WriteFile(Called(s, "plain", None, None, items, path), path, PlainText(items))

\* data_export.json.export(items, path)
export_json(s, items, path) ==
    WriteFile(Called(s, "json", None, None, items, path), path, JsonDumps(items))

\* data_export.xml.export(root_el_name, child_el_name, items, path)
export_xml(s, root_el_name, child_el_name, items, path) ==
    WriteFile(Called(s, "xml", root_el_name, child_el_name, items, path), path,
              XmlText(root_el_name, child_el_name, items))

----------------------------------------------------------------------------
(* src/main.py: the export of the picked items.                            *)

\* Application.export_formats
export_formats ==
    << [format |-> <<"T","X","T">>, proc |-> "_export_txt"],
       [format |-> <<"X","M","L">>, proc |-> "_export_xml"],
       [format |-> <<"J","S","O","N">>, proc |-> "_export_json"] >>

\* The largest index of character c in text, 0 when there is none.
LastIndex(text, c) ==
    IF \E k \in DOMAIN text : text[k] = c
    THEN CHOOSE k \in DOMAIN text :
            text[k] = c /\ \A j \in DOMAIN text : text[j] = c => j <= k
    ELSE 0

\* os.path.split(path)[1]
PathTail(path) == SubSeq(path, LastIndex(path, "/") + 1, Len(path))

\* os.path.splitext(file)[1] of a file name with no directory: from the last
\* dot on, when a character other than a dot comes before it.
SplitExt(file) ==
    LET dot == LastIndex(file, ".")
    IN IF dot > 0 /\ \E k \in 1..(dot - 1) : file[k] # "."
       THEN SubSeq(file, dot, Len(file))
       ELSE <<>>

\* The extension _get_export_proc looks up.
ExportExt(path) == Strip(Lower(SplitExt(PathTail(path))), {"."})

\* A lookup that compares the extension as it is written, without lowering
\* its letters.
_get_export_proc_as_written(path) ==
    LET ext == Strip(SplitExt(PathTail(path)), {"."})
        procs == SelectSeq(export_formats, LAMBDA it : Lower(it.format) = ext)
    IN IF procs = <<>> THEN "IndexError" ELSE procs[1].proc

\* _get_export_proc(path): the procedure's name, or "IndexError" when
\* procs[0] is taken of an empty list.
_get_export_proc(path) ==
    LET ext == ExportExt(path)
        procs == SelectSeq(export_formats, LAMBDA it : Lower(it.format) = ext)
    IN IF procs = <<>> THEN "IndexError" ELSE procs[1].proc

\* _export_txt(path)
_export_txt(s, path) == export_plain(s, s.picked, path)

\* _export_xml(path)
_export_xml(s, path) ==
    export_xml(s, <<"I","t","e","m","s">>, <<"I","t","e","m">>, s.picked, path)

\* _export_json(path)
_export_json(s, path) == export_json(s, s.picked, path)

\* An export that asks for a path and looks up a procedure whether or not
\* anything was picked.
_export_picked_unguarded(s, chosen) ==
    LET s1 == Asked(s, "save", chosen)
        proc == _get_export_proc(chosen)
    IN CASE proc = "IndexError" -> Raise(s1, "IndexError")
         [] proc = "_export_txt" -> _export_txt(s1, chosen)
         [] proc = "_export_xml" -> _export_xml(s1, chosen)
         [] proc = "_export_json" -> _export_json(s1, chosen)

\* _export_picked(), when the save dialog (if it is shown) answers chosen.
_export_picked(s, chosen) ==
    IF s.picked # <<>>
    THEN LET s1 == Asked(s, "save", chosen)
             proc == _get_export_proc(chosen)
         IN CASE proc = "IndexError" -> Raise(s1, "IndexError")
              [] proc = "_export_txt" -> _export_txt(s1, chosen)
              [] proc = "_export_xml" -> _export_xml(s1, chosen)
              [] proc = "_export_json" -> _export_json(s1, chosen)
    ELSE s

\* What ui.file_saver() can return ('' when the user cancels the dialog).
SaveChoices ==
    { <<"p", ".", "t", "x", "t">>,
      <<"d", ".", "x", "/", "p", ".", "X", "m", "L">>,
      <<"p", ".", "t", ".", "J", "S", "O", "N">>,
      <<"p", ".", "c", "s", "v">>,
      <<>> }

----------------------------------------------------------------------------
(* The application as a state machine: one action for each handler.        *)

Init ==
    /\ shuffle_list = <<>>
    /\ shuffle_list_filepath = None
    /\ picked = <<>>
    /\ value = MsgChoose
    /\ shuffle_btn = "Start"
    /\ shuffling_in_progress = FALSE
    /\ picked_items_container = <<>>
    /\ timers = <<>>
    /\ out = NoEffect("init")
    /\ pre_pick_len = 0
    /\ State_items = EmptyDict
    /\ heap = [o \in Objects |-> 0]
    /\ hist = [kwargs |-> EmptyDict, last_set |-> EmptyDict]

\* The lists and the timer queue stay within the model's bounds.
Bounded(s) ==
    /\ Len(s.shuffle_list) + Len(s.picked) <= MaxHeld
    /\ Len(s.timers) <= MaxTimers

\* The Start/Stop button.
Toggle ==
    \E chosen \in (IF shuffle_list = <<>> /\ ~Truthy(shuffle_list_filepath)
                    THEN OpenChoices ELSE {<<>>}) :
        \E t \in _toggle_shuffler(Begin(St, "Toggle"), chosen) :
            Bounded(t) /\ Becomes(t)

\* The oldest pending timer callback fires.
Tick ==
    /\ timers # <<>>
    /\ Becomes(_start_item_flash_loop(
                   Begin([St EXCEPT !.timers = Tail(@)], "Tick"), Head(timers)))

\* The Pick button.
Pick ==
    LET t == _pick_item(Begin(St, "Pick")) IN Bounded(t) /\ Becomes(t)

\* The Reset button.
Reset ==
    LET t == _reset(Begin(St, "Reset")) IN Bounded(t) /\ Becomes(t)

\* The Import button.
Load ==
    \E chosen \in OpenChoices :
        \E t \in _load_shuffle_list(Begin(St, "Load"), TRUE, chosen) : Becomes(t)

\* The Export button.
Export ==
    \E chosen \in (IF picked # <<>> THEN SaveChoices ELSE {<<>>}) :
        Becomes(_export_picked(Begin(St, "Export"), chosen))

Next == Toggle \/ Tick \/ Pick \/ Reset \/ Load \/ Export

Spec == Init /\ [][Next]_vars

\* The handlers that read or write what the flash loop works on: all but
\* the Export button's, which writes files only.
NextLoop == Toggle \/ Tick \/ Pick \/ Reset \/ Load

\* The loop's machine with the timer firing fairly: the event loop that
\* start() enters runs every callback registered with after() once its
\* interval has passed, so a callback that stays pending is run.
SpecFair == Init /\ [][NextLoop]_vars /\ WF_vars(Tick)

----------------------------------------------------------------------------
(* The export writers on their own: one of them is called, once, with a    *)
(* list of texts and a path.                                               *)

\* Texts an export writer can be given as items: empty, plain, with spaces
\* and tabs, with line ends, with a form feed, and with the characters JSON
\* and XML escape.
WriterTexts ==
    { <<>>, <<"a">>, <<"a", "b">>, <<" ", "a", "\t">>,
      <<NL>>, <<"a", NL, "b">>, <<"\r">>, <<"\f">>,
      <<"<", "&", ">">>, <<"\"", "\\">> }

\* The lists of at most n of these texts.
WriterLists(n) == UNION {[1..k -> WriterTexts] : k \in 0..n}

WriterPaths == { <<"o", "u", "t">>, <<"d", "/", "o", ".", "x">> }

\* Only the handler's effects change.
Effects(s) ==
    /\ out' = s.out
    /\ UNCHANGED <<shuffle_list, shuffle_list_filepath, picked, value, shuffle_btn,
                   shuffling_in_progress, picked_items_container, timers,
                   pre_pick_len, State_items, heap, hist>>

PlainExport ==
    /\ out.op = "init"
    /\ \E items \in WriterLists(MaxItems), path \in WriterPaths :
          Effects(export_plain(Begin(St, "export_plain"), items, path))

JsonExport ==
    /\ out.op = "init"
    /\ \E items \in WriterLists(MaxItems), path \in WriterPaths :
          Effects(export_json(Begin(St, "export_json"), items, path))

XmlExport ==
    /\ out.op = "init"
    /\ \E items \in WriterLists(MaxItems), path \in WriterPaths :
          Effects(export_xml(Begin(St, "export_xml"), <<"I","t","e","m","s">>,
                             <<"I","t","e","m">>, items, path))

NextExport == PlainExport \/ JsonExport \/ XmlExport

SpecExport == Init /\ [][NextExport]_vars

----------------------------------------------------------------------------
(* The State container on its own: it is constructed, then read and        *)
(* written with any keys and values.                                       *)

\* What a call on the State leaves behind: the container, the objects, and
\* the call with its result.
StateEffects(c, op, key, v) ==
    /\ State_items' = c.items
    /\ heap' = c.heap
    /\ out' = [op |-> op, key |-> key, value |-> v, returned |-> c.returned,
               raised |-> c.raised, invoked |-> c.invoked]
    /\ UNCHANGED <<shuffle_list, shuffle_list_filepath, picked, value, shuffle_btn,
                   shuffling_in_progress, picked_items_container, timers,
                   pre_pick_len>>

\* State(**kwargs)
StateNew ==
    /\ out.op = "init"
    /\ \E kwargs \in Dicts :
          /\ StateEffects(State__init__(Container, kwargs), "State", None, None)
          /\ hist' = [kwargs |-> kwargs, last_set |-> EmptyDict]

\* state.get(key)
StateGet ==
    /\ out.op # "init"
    /\ \E key \in Keys :
          /\ StateEffects(State_get(Container, key), "get", key, None)
          /\ UNCHANGED hist

\* state.set(key, value) with a plain value
StateSetPlain ==
    /\ out.op # "init"
    /\ \E key \in Keys, v \in PlainValues :
          /\ StateEffects(State_set(Container, key, v), "set", key, v)
          /\ hist' = [hist EXCEPT !.last_set = DictSet(@, key, v)]

\* state.set(key, value) with a callable value
StateSetCallable ==
    /\ out.op # "init"
    /\ \E key \in Keys, f \in Callables :
          /\ \A o \in Objects : heap[o] < MaxChanges
          /\ StateEffects(State_set(Container, key, f), "set", key, <<f>>)
          /\ UNCHANGED hist

NextState == StateNew \/ StateGet \/ StateSetPlain \/ StateSetCallable

SpecState == Init /\ [][NextState]_vars

----------------------------------------------------------------------------
(* Notions the properties below are stated with.                           *)

\* No value occurs twice in the sequence.
NoDuplicates(seq) == \A j, k \in DOMAIN seq : seq[j] = seq[k] => j = k

\* The sequence without its k-th element.
RemoveAt(seq, k) == SubSeq(seq, 1, k - 1) \o SubSeq(seq, k + 1, Len(seq))

\* text ends with suffix.
EndsWith(text, suffix) ==
    /\ Len(suffix) <= Len(text)
    /\ SubSeq(text, Len(text) - Len(suffix) + 1, Len(text)) = suffix

\* text starts with prefix.
StartsWith(text, prefix) ==
    Len(prefix) <= Len(text) /\ SubSeq(text, 1, Len(prefix)) = prefix

\* text without its first n characters.
Drop(text, n) == SubSeq(text, n + 1, Len(text))

\* The handler that ran last was an accepted Pick's, Reset's, ... : its name.
Ran(op) == out.op = op

\* The one call of an export writer the last handler made, and its one write.
TheCall == out.calls[1]
TheWrite == out.writes[1]

----------------------------------------------------------------------------
(* The Working List and the Picked List.                                   *)

\* C1: every accepted Pick (the loop RUNNING, the Working List not empty)
\* removes exactly one item from the Working List and appends exactly that
\* item to the Picked List.
C1_PickMovesOneItem ==
    [][ (out'.op = "Pick" /\ shuffle_list # <<>> /\ shuffling_in_progress)
        => \E k \in DOMAIN shuffle_list :
              /\ shuffle_list' = RemoveAt(shuffle_list, k)
              /\ picked' = Append(picked, shuffle_list[k]) ]_vars

\* C2: in every reachable state the Working List and the Picked List have no
\* item in common.
C2_ListsDisjoint == Range(shuffle_list) \cap Range(picked) = {}

\* C3: in every reachable state the Working List holds no item twice.
C3_WorkingListUnique == NoDuplicates(shuffle_list)

\* C4: a Reset leaves the Picked List empty and the Working List as long as
\* it was before the picks made since the last load or reset.
C4_ResetRestoresLength ==
    [][ out'.op = "Reset"
        => picked' = <<>> /\ Len(shuffle_list') = pre_pick_len ]_vars

\* C5: while the loop runs on an unchanged Working List, a Tick that follows
\* the display of an item displays the next item in cyclic order: after the
\* last item, the first.
C5_TicksCycle ==
    [][ (out.flashed /\ out'.op = "Tick" /\ NoDuplicates(shuffle_list))
        => /\ out'.flashed
           /\ \E k \in DOMAIN shuffle_list :
                 /\ value = shuffle_list[k]
                 /\ value' = shuffle_list[(k % Len(shuffle_list)) + 1] ]_vars

----------------------------------------------------------------------------
(* The Export button.                                                      *)

Txt == <<"t", "x", "t">>
Xml == <<"x", "m", "l">>
Json == <<"j", "s", "o", "n">>

\* The path ends with a dot and ext, in any letter case.
HasExtension(path, ext) == EndsWith(Lower(path), <<".">> \o ext)

\* The save dialog's answer, when the last handler showed the dialog.
SavePath == out.dialogs[1].answer

\* The last handler was an Export that found the Picked List not empty.
Exported == Ran("Export") /\ out.dialogs # <<>>

\* C6: an Export with a non-empty Picked List and a path whose extension is
\* not txt, xml or json ends normally: no writer is called, no file is
\* written, no error is raised.
C6_UnknownExtensionIsNoOp ==
    (/\ Exported
     /\ SavePath # <<>>
     /\ \A ext \in {Txt, Xml, Json} : ~HasExtension(SavePath, ext))
        => out.raised = "none" /\ out.calls = <<>> /\ out.writes = <<>>

\* C7: an Export with an empty Picked List does nothing: it shows no dialog,
\* calls no writer, writes no file, raises nothing, and leaves the lists,
\* the running flag, the displayed value and the rest of the state alone.
C7_ExportOfNothingIsNoOp ==
    [][ (out'.op = "Export" /\ picked = <<>>)
        => /\ out' = NoEffect("Export")
           /\ UNCHANGED <<shuffle_list, shuffle_list_filepath, picked, value,
                          shuffle_btn, shuffling_in_progress,
                          picked_items_container, timers>> ]_vars

\* An Export of nothing happened, with a Working List loaded.
C7_Witness == Ran("Export") /\ picked = <<>> /\ shuffle_list # <<>>

\* The one call an Export has to make for a path with this extension.
ExpectedCall(ext) ==
    [writer |-> CASE ext = Txt -> "plain" [] ext = Xml -> "xml" [] ext = Json -> "json",
     root_el_name |-> IF ext = Xml THEN <<"I","t","e","m","s">> ELSE None,
     child_el_name |-> IF ext = Xml THEN <<"I","t","e","m">> ELSE None,
     items |-> picked,
     path |-> SavePath]

\* C8: an Export with a non-empty Picked List and a path whose extension is
\* txt, xml or json in any letter case calls exactly one writer, the one of
\* that extension, with the Picked List in pick order and that path.
C8_ExportCallsTheMappedWriter ==
    Exported =>
        \A ext \in {Txt, Xml, Json} :
            HasExtension(SavePath, ext)
                => out.raised = "none" /\ out.calls = <<ExpectedCall(ext)>>

\* Two picked items were exported to a path with a mixed-case extension.
C8_Witness ==
    /\ Exported
    /\ Len(picked) = 2
    /\ HasExtension(SavePath, Xml) /\ ~EndsWith(SavePath, <<".">> \o Xml)
    /\ Len(out.calls) = 1

----------------------------------------------------------------------------
(* The export writers: what they write, and reading it back.  The readers  *)
(* are those of the formats: str.split on the line end, a JSON reader of   *)
(* an array of strings, an XML reader of the children's texts.             *)

RECURSIVE SplitOn(_, _, _)
\* text.split(sep), cur being the piece that is read.
SplitOn(text, sep, cur) ==
    IF text = <<>> THEN <<cur>>
    ELSE IF Head(text) = sep
         THEN <<cur>> \o SplitOn(Tail(text), sep, <<>>)
         ELSE SplitOn(Tail(text), sep, Append(cur, Head(text)))

\* Reading back a plain text export: its lines.
ParsePlain(text) == SplitOn(text, NL, <<>>)

\* The character a JSON escape \c stands for.
JsonUnescape(c) ==
    CASE c = "n" -> "\n" [] c = "r" -> "\r" [] c = "t" -> "\t" [] c = "f" -> "\f"
      [] OTHER -> c

RECURSIVE JsonScan(_, _, _, _)
\* The strings of a JSON array of strings: in_string says whether the scan
\* is inside a string, cur is that string so far, acc the strings read.
JsonScan(text, in_string, cur, acc) ==
    IF text = <<>> THEN acc
    ELSE IF ~in_string
         THEN JsonScan(Tail(text), Head(text) = "\"", <<>>, acc)
    ELSE IF Head(text) = "\\"
         THEN JsonScan(Drop(text, 2), TRUE, Append(cur, JsonUnescape(text[2])), acc)
    ELSE IF Head(text) = "\""
         THEN JsonScan(Tail(text), FALSE, <<>>, Append(acc, cur))
    ELSE JsonScan(Tail(text), TRUE, Append(cur, Head(text)), acc)

\* Reading back a JSON export.
ParseJson(text) == JsonScan(text, FALSE, <<>>, <<>>)

RECURSIVE XmlUnescape(_)
\* The text an XML reader gives for the characters between two tags: the
\* entities replaced, every line end turned into a line feed.
XmlUnescape(raw) ==
    IF raw = <<>> THEN <<>>
    ELSE IF StartsWith(raw, <<"&", "a", "m", "p", ";">>)
         THEN <<"&">> \o XmlUnescape(Drop(raw, 5))
    ELSE IF StartsWith(raw, <<"&", "l", "t", ";">>)
         THEN <<"<">> \o XmlUnescape(Drop(raw, 4))
    ELSE IF StartsWith(raw, <<"&", "g", "t", ";">>)
         THEN <<">">> \o XmlUnescape(Drop(raw, 4))
    ELSE IF StartsWith(raw, <<"\r", NL>>)
         THEN <<NL>> \o XmlUnescape(Drop(raw, 2))
    ELSE IF Head(raw) = "\r"
         THEN <<NL>> \o XmlUnescape(Tail(raw))
    ELSE <<Head(raw)>> \o XmlUnescape(Tail(raw))

\* The number of characters of text before its first "<".
UpToTag(text) ==
    IF \E k \in DOMAIN text : text[k] = "<"
    THEN (CHOOSE k \in DOMAIN text :
             text[k] = "<" /\ \A j \in 1..(k - 1) : text[j] # "<") - 1
    ELSE Len(text)

RECURSIVE XmlScan(_, _, _)
\* The texts of the tag elements of an XML text, None for an element
\* written in the short form; acc the texts read.
XmlScan(text, tag, acc) ==
    LET open == <<"<">> \o tag \o <<">">>
        close == <<"<", "/">> \o tag \o <<">">>
        short == <<"<">> \o tag \o <<" ", "/", ">">>
    IN IF text = <<>> THEN acc
       ELSE IF StartsWith(text, short)
            THEN XmlScan(Drop(text, Len(short)), tag, Append(acc, None))
       ELSE IF StartsWith(text, open)
            THEN LET rest == Drop(text, Len(open))
                     n == UpToTag(rest)
                 IN XmlScan(Drop(rest, n + Len(close)), tag,
                            Append(acc, XmlUnescape(SubSeq(rest, 1, n))))
       ELSE XmlScan(Tail(text), tag, acc)

\* Reading back an XML export: the texts of its child elements.
ParseXml(text, child_el_name) == XmlScan(text, child_el_name, <<>>)

\* The control characters an XML reader rejects, among those of the texts
\* above.
XmlNotAllowed == {"\f"}

\* An XML reader accepts the text.
WellFormedXml(text) == Range(text) \cap XmlNotAllowed = {}

\* One export writer was called, and wrote one file.
Wrote(writer) ==
    Ran(writer) /\ Len(out.calls) = 1 /\ Len(out.writes) = 1

\* What reading back the written text gives, in the format of the writer.
ReadBack ==
    CASE Ran("export_plain") -> ParsePlain(TheWrite.content)
      [] Ran("export_json") -> ParseJson(TheWrite.content)
      [] Ran("export_xml") -> ParseXml(TheWrite.content, TheCall.child_el_name)

\* The writer was given a non-empty list of unique texts.
UniqueItemsGiven ==
    /\ out.calls # <<>>
    /\ TheCall.items # <<>>
    /\ NoDuplicates(TheCall.items)

\* Some item holds the character c.
SomeItemHas(c) ==
    \E k \in DOMAIN TheCall.items : c \in Range(TheCall.items[k])

\* The written text is accepted by the reader of its format, and reading it
\* back gives the items the writer was given, in their order.
RoundTrips ==
    /\ Ran("export_xml") => WellFormedXml(TheWrite.content)
    /\ ReadBack = TheCall.items

\* C9 as stated: for every non-empty list of unique texts, reading back what
\* a writer wrote gives the same items in the same order.
C9_RoundTrip == UniqueItemsGiven => RoundTrips

\* C9 as amended: it does so for the JSON writer; for the plain writer when
\* no item holds a line feed; for the XML writer when no item is empty and
\* none holds a carriage return or a control character XML does not allow.
C9_RoundTripOfWellFormedItems ==
    UniqueItemsGiven =>
        /\ Ran("export_json") => RoundTrips
        /\ (Ran("export_plain") /\ ~SomeItemHas(NL)) => RoundTrips
        /\ (Ran("export_xml") /\ <<>> \notin Range(TheCall.items)
                              /\ ~SomeItemHas("\r")
                              /\ \A c \in XmlNotAllowed : ~SomeItemHas(c))
              => RoundTrips

\* Two items with quotes, backslashes and a line feed went through JSON.
C9_Witness ==
    /\ Wrote("export_json")
    /\ TheCall.items = << <<"\"", "\\">>, <<"a", NL, "b">> >>
    /\ RoundTrips

\* The number of characters before the k-th item in the items joined by
\* one separator character.
RECURSIVE Offset(_, _)
Offset(items, k) ==
    IF k = 1 THEN 0 ELSE Offset(items, k - 1) + Len(items[k - 1]) + 1

\* text is the items in order, each unchanged, with one line feed between
\* two neighbours and nothing else.
IsLinesOf(text, items) ==
    /\ Len(text) = IF items = <<>> THEN 0
                   ELSE Offset(items, Len(items)) + Len(items[Len(items)])
    /\ \A k \in DOMAIN items :
          /\ SubSeq(text, Offset(items, k) + 1, Offset(items, k) + Len(items[k]))
                = items[k]
          /\ k > 1 => text[Offset(items, k)] = NL

\* C10: the plain writer writes one file, at the path it is given, holding
\* exactly the items in order joined by single line feeds: no line feed
\* before the first or after the last, no item's text changed.
C10_PlainWritesJoinedLines ==
    Ran("export_plain") =>
        /\ Len(out.writes) = 1
        /\ TheWrite.path = TheCall.path
        /\ IsLinesOf(TheWrite.content, TheCall.items)

\* Two items, one of them with spaces and a tab, were written as plain text.
C10_Witness ==
    /\ Wrote("export_plain")
    /\ TheCall.items = << <<" ", "a", "\t">>, <<"a", "b">> >>

----------------------------------------------------------------------------
(* The State container.                                                    *)

\* What the history says a get of key has to return: the plain value last
\* set for it, else the value it was constructed with, else None.
Expected(key) ==
    IF key \in DOMAIN hist.last_set THEN hist.last_set[key]
    ELSE IF key \in DOMAIN hist.kwargs THEN hist.kwargs[key]
    ELSE None

\* What a get of key would return from the dict.
Held(dict, key) == IF key \in DOMAIN dict THEN dict[key] ELSE None

\* The last call was a set with a callable value.
CallableGiven(o) == o.op = "set" /\ o.value \in {<<f>> : f \in Callables}

\* C11: a get returns the plain value most recently set for its key, else
\* the value given for the key at construction, else None; and a set with a
\* plain value changes what a get returns for no other key.
C11_GetReturnsLastSet ==
    /\ [](out.op = "get" => out.returned = Expected(out.key))
    /\ [][ (out'.op = "set" /\ ~CallableGiven(out'))
            => \A k \in Keys \ {out'.key} :
                  Held(State_items', k) = Held(State_items, k) ]_vars

\* A get returned the object set for its key, after another object was set
\* for the other key, both keys having been constructed with None.
C11_Witness ==
    /\ out.op = "get" /\ out.key = "a"
    /\ out.returned = <<"o", "1">>
    /\ hist.kwargs = [k \in Keys |-> None]
    /\ hist.last_set = [k \in Keys |-> IF k = "a" THEN <<"o", "1">> ELSE <<"o", "2">>]

\* C12: a set with a callable, for a key the State has, calls it exactly
\* once, with the value stored under the key, and stores nothing: the State
\* holds the same object under every key as before.
C12_CallableSetKeepsTheObject ==
    [][ (CallableGiven(out') /\ out'.key \in DOMAIN State_items)
        => /\ out'.raised = "none"
           /\ out'.invoked = <<[f |-> out'.value[1], arg |-> State_items[out'.key]]>>
           /\ State_items' = State_items ]_vars

\* A callable was given the object held under a key and changed it in
\* place; the key still holds that object.
C12_Witness ==
    /\ CallableGiven(out) /\ out.key = "a"
    /\ out.invoked = <<[f |-> "touch", arg |-> <<"o", "1">>]>>
    /\ heap[<<"o", "1">>] = 1
    /\ Held(State_items, "a") = <<"o", "1">>

----------------------------------------------------------------------------
(* Pick, Reset, Load, Tick and Toggle, one by one.                         *)

\* C13: a Pick while the loop is stopped, or while the Working List is
\* empty, changes nothing: not the lists, the running flag, the displayed
\* value or the toggle's label.
C13_PickRefusedIsNoOp ==
    [][ (out'.op = "Pick" /\ (~shuffling_in_progress \/ shuffle_list = <<>>))
        => UNCHANGED <<shuffle_list, picked, picked_items_container,
                       shuffling_in_progress, value, shuffle_btn, timers>> ]_vars

\* A Pick was refused because the loop was stopped, with items to pick.
C13_Witness ==
    Ran("Pick") /\ ~shuffling_in_progress /\ shuffle_list # <<>> /\ picked # <<>>

\* C14: after an accepted Pick the loop is stopped exactly when the Working
\* List is empty: then the displayed value is 'No more items. Reset/Restart.'
\* and the toggle's label is 'Restart'; otherwise the loop runs and the
\* label is what it was.
C14_PickStopsOnEmptyList ==
    [][ (out'.op = "Pick" /\ shuffle_list # <<>> /\ shuffling_in_progress)
        => IF shuffle_list' = <<>>
           THEN /\ ~shuffling_in_progress'
                /\ value' = MsgNoMore
                /\ shuffle_btn' = "Restart"
           ELSE /\ shuffling_in_progress'
                /\ shuffle_btn' = shuffle_btn ]_vars

\* The second of two items was picked and the loop stopped.
C14_Witness ==
    /\ Ran("Pick") /\ shuffle_list = <<>> /\ Len(picked) = 2
    /\ value = MsgNoMore /\ shuffle_btn = "Restart" /\ ~shuffling_in_progress

\* C15: a Reset with an empty Picked List changes nothing: not the lists,
\* the running flag, the displayed value or the toggle's label.
C15_ResetOfNothingIsNoOp ==
    [][ (out'.op = "Reset" /\ picked = <<>>)
        => UNCHANGED <<shuffle_list, picked, picked_items_container,
                       shuffling_in_progress, value, shuffle_btn, timers>> ]_vars

\* A Reset with nothing picked happened while the loop was showing an item
\* of a loaded list.
C15_Witness ==
    /\ Ran("Reset") /\ picked = <<>> /\ shuffling_in_progress
    /\ value \in Range(shuffle_list)

\* C16: a Reset with a non-empty Picked List makes the Working List the old
\* Working List followed by the old Picked List in pick order, empties the
\* Picked List and its display, and displays 'Shuffler reset.'.
C16_ResetAppendsPicked ==
    [][ (out'.op = "Reset" /\ picked # <<>>)
        => /\ shuffle_list' = shuffle_list \o picked
           /\ picked' = <<>>
           /\ picked_items_container' = <<>>
           /\ value' = MsgReset ]_vars

\* A Reset put one picked item back behind the one that was left.
C16_Witness ==
    /\ Ran("Reset") /\ value = MsgReset /\ picked = <<>>
    /\ shuffle_list = << <<"\t", "b">>, <<"a">> >>

\* The lines of the file at path, each without the whitespace at its ends,
\* the blank ones left out.
TrimmedLines(path) ==
    LET raw == ReadLines(SourceFiles[path])
    IN {Strip(raw[k], Whitespace) : k \in DOMAIN raw} \ {<<>>}

\* The handler was a Load that read the file at path.
Loaded(o, path) ==
    /\ o.op = "Load"
    /\ o.raised = "none"
    /\ o.dialogs # <<>>
    /\ o.dialogs[1].answer = path

\* C17: a Load installs as Working List the distinct non-blank lines of the
\* source, trimmed of whitespace, each once, and displays
\* '{n} items loaded. Ready to start.' for the n items installed.
C17_LoadInstallsTrimmedLines ==
    [][ \A path \in DOMAIN SourceFiles :
          Loaded(out', path)
            => /\ Range(shuffle_list') = TrimmedLines(path)
               /\ NoDuplicates(shuffle_list')
               /\ value' = MsgLoaded(Len(shuffle_list')) ]_vars

\* C18: a Tick that fires while the loop runs on an empty Working List stops
\* the loop, leaves the displayed value as it is and schedules no Tick.
C18_TickOnEmptyListStops ==
    [][ (out'.op = "Tick" /\ shuffling_in_progress /\ shuffle_list = <<>>)
        => /\ ~shuffling_in_progress'
           /\ value' = value
           /\ timers' = Tail(timers) ]_vars

\* C19: a Toggle pressed while the loop is stopped leaves it running only
\* with a Working List that is not empty.
C19_StartNeedsItems ==
    [][ (out'.op = "Toggle" /\ ~shuffling_in_progress /\ shuffling_in_progress')
        => shuffle_list' # <<>> ]_vars

\* C20: in every reachable state at most one tick callback is pending.
C20_OneTimerPending == Len(timers) <= 1

----------------------------------------------------------------------------
(* The flag, the label and the lists over any sequence of handlers.        *)

\* C21: a tick callback that fires while the running flag is false changes
\* nothing (not the displayed value, the lists, the flag or the label) and
\* schedules no tick; and the flag goes from false to true by a Toggle only,
\* so that no callback changes the displayed value after a Stop until a
\* Start.
C21_TickWhileStoppedIsNoOp ==
    /\ [][ (out'.op = "Tick" /\ ~shuffling_in_progress)
            => /\ UNCHANGED <<value, shuffle_list, picked, picked_items_container,
                              shuffling_in_progress, shuffle_btn>>
               /\ timers' = Tail(timers) ]_vars
    /\ [][ (~shuffling_in_progress /\ shuffling_in_progress')
            => out'.op = "Toggle" ]_vars

\* The callback left pending by a Stop fired and was the last one, with the
\* list loaded and an item still displayed.
C21_Witness ==
    /\ Ran("Tick") /\ ~shuffling_in_progress /\ timers = <<>>
    /\ shuffle_btn = "Start" /\ value \in Range(shuffle_list)

\* C22: a Reset with a non-empty Picked List leaves the loop as it was:
\* running, with the label 'Stop', if it ran; stopped, with the label
\* 'Start', if it was stopped; and it schedules no tick.
C22_ResetKeepsTheLoopState ==
    [][ (out'.op = "Reset" /\ picked # <<>>)
        => /\ shuffling_in_progress' = shuffling_in_progress
           /\ shuffle_btn' = IF shuffling_in_progress THEN "Stop" ELSE "Start"
           /\ timers' = timers ]_vars

\* A Reset happened while the loop ran with a tick pending, and the loop
\* still runs.
C22_Witness ==
    /\ Ran("Reset") /\ value = MsgReset /\ shuffling_in_progress
    /\ shuffle_btn = "Stop" /\ Len(timers) = 1 /\ Len(shuffle_list) = 2

\* C23: a Toggle triggers a Load (it asks for a source file) if and only if
\* the Working List and the Picked List are both empty and no source path
\* is stored.
C23_ToggleLoadsWhenNothingIsHeld ==
    [][ out'.op = "Toggle"
        => (out'.dialogs # <<>>
              <=> /\ shuffle_list = <<>>
                  /\ picked = <<>>
                  /\ ~Truthy(shuffle_list_filepath)) ]_vars

\* seq is the start of longer.
IsPrefix(seq, longer) ==
    Len(seq) <= Len(longer) /\ SubSeq(longer, 1, Len(seq)) = seq

\* C24 as stated: across every step that is not a Reset of a non-empty
\* Picked List (a Toggle, a Tick, a Pick, a Load, an Export), the Picked List
\* before the step is a prefix of the Picked List after it.
C24_PickedIsAppendOnly ==
    [][ ~(out'.op = "Reset" /\ picked # <<>>) => IsPrefix(picked, picked') ]_vars

\* C24, with the reset a Start makes: across every step that is neither a
\* Reset of a non-empty Picked List nor a Toggle that starts the loop on an
\* empty Working List (it resets before it starts), the Picked List before
\* the step is a prefix of the Picked List after it.
C24_PickedIsAppendOnlyApartFromResets ==
    [][ ( /\ ~(out'.op = "Reset" /\ picked # <<>>)
          /\ ~(out'.op = "Toggle" /\ ~shuffling_in_progress
                                  /\ shuffle_list = <<>>) )
        => IsPrefix(picked, picked') ]_vars

\* A second, different item was picked after the first.
C24_Witness ==
    /\ Ran("Pick") /\ Len(picked) = 2 /\ picked[1] # picked[2]
    /\ shuffling_in_progress

\* The items a Load can install: those of the source files.
LoadableItems ==
    UNION { {Strip(line, {" ", NL}) :
                 line \in {l \in Range(ReadLines(SourceFiles[path])) :
                              Strip(l, Whitespace) # <<>>}}
            : path \in DOMAIN SourceFiles }

\* C25: in every reachable state every element of the Picked List is an
\* item of a loaded source, never a status message.
C25_PickedHoldsLoadedItems ==
    \A k \in DOMAIN picked :
        /\ picked[k] \in LoadableItems
        /\ picked[k] \notin {MsgReset, MsgNoMore, MsgChoose}
                             \cup {MsgLoaded(n) : n \in 0..MaxHeld}

\* C26: in every reachable state the Picked List holds no item twice.
C26_PickedIsUnique == NoDuplicates(picked)

\* The handler was a Load or a Toggle that read a source file.
ReadASource(o) ==
    o.op \in {"Load", "Toggle"} /\ o.dialogs # <<>> /\ o.raised = "none"

\* C27: no step other than the load of a source takes an item out of both
\* lists: every item of the Working List or the Picked List is in one of
\* them after the step, so that the items a Load installed are all there
\* until the next one.
C27_NoItemIsLost ==
    [][ ~ReadASource(out')
        => (Range(shuffle_list) \cup Range(picked))
              \subseteq (Range(shuffle_list') \cup Range(picked')) ]_vars

\* Both items of a source are held after a Pick: the one displayed is in
\* the Picked List, the other in the Working List.
C27_Witness ==
    /\ Ran("Pick") /\ Len(picked) = 1 /\ Len(shuffle_list) = 1
    /\ Range(shuffle_list) \cup Range(picked) = LoadableItems
    /\ pre_pick_len = 2 /\ value = picked[1]

\* C28: in every reachable state the toggle's label is 'Stop' if and only
\* if the running flag is true, and otherwise 'Start' or 'Restart'.
C28_LabelTellsTheFlag ==
    /\ shuffle_btn = "Stop" <=> shuffling_in_progress
    /\ ~shuffling_in_progress => shuffle_btn \in {"Start", "Restart"}

\* The last item was picked, and the last pending callback has fired.
C28_Witness ==
    /\ shuffle_btn = "Restart" /\ ~shuffling_in_progress
    /\ Ran("Tick") /\ timers = <<>> /\ shuffle_list = <<>>

\* C29: a Tick raises no error; one that fires while the loop runs with its
\* cursor outside the Working List's index range sets the cursor to 0 and
\* schedules the next Tick, the loop still running.
C29_TickNeverFails ==
    [][ out'.op = "Tick"
        => /\ out'.raised = "none"
           /\ (shuffling_in_progress /\ ~InRange(Head(timers), shuffle_list))
                 => /\ shuffling_in_progress'
                    /\ timers' = Append(Tail(timers), 0) ]_vars

\* A Tick found its cursor past the end of a Working List that a Pick had
\* shortened, and the next Tick is scheduled for the first item.
C29_Witness ==
    /\ Ran("Tick") /\ ~out.flashed /\ shuffling_in_progress
    /\ Len(shuffle_list) = 1 /\ Len(picked) = 1 /\ timers = <<0>>

\* From some point on only timer callbacks run (no button is pressed), the
\* loop runs and the Working List has an item at position k.
OnlyTicksWith(k) ==
    out.op = "Tick" /\ shuffling_in_progress /\ Len(shuffle_list) >= k

\* A callback displayed the item at position k of the Working List.
Displayed(k) ==
    out.op = "Tick" /\ out.flashed /\ Len(shuffle_list) >= k
                   /\ value = shuffle_list[k]

\* C30: with the timer firing fairly, if from some point on the loop runs on
\* a non-empty Working List and only timer callbacks run, then every item of
\* the Working List (the one at each position k) is displayed again and
\* again.
C30_EveryItemIsDisplayedAgain ==
    \A k \in 1..MaxHeld : <>[]OnlyTicksWith(k) => []<>Displayed(k)

\* The last of two items was displayed and the cursor wrapped around: the
\* pending callback holds the negative index.
C30_Witness ==
    /\ Ran("Tick") /\ out.flashed /\ shuffling_in_progress
    /\ Len(shuffle_list) = 2 /\ value = shuffle_list[2] /\ timers = <<-1>>

====
